---------------------------- MODULE Spec2Model ----------------------------
(***************************************************************************)
(* Auralynx: the transcription tool (auralynx_core_api.py: upload, submit, *)
(* poll, write the JSON artifact, preview) and the parsing tool            *)
(* (auralynx_parse.py: timestamp listing, WORD_DATA, LRC export), as state *)
(* machines, with the LRC timestamp formatter as an operator.              *)
(***************************************************************************)
EXTENDS Integers, Sequences, FiniteSets, TLC

(***************************************************************************)
(* Bounds of the model.                                                    *)
(***************************************************************************)
\* --timeout values run from -1 to MaxTimeout seconds.
MaxTimeout == 6
\* One HTTP exchange takes 0..MaxFetch seconds of wall-clock time.
MaxFetch == 2
\* Word lists drawn for a transcript hold up to MaxWords entries.
MaxWords == 2

(***************************************************************************)
(* Program constants.                                                      *)
(***************************************************************************)
\* poll_transcript(..., poll_interval=3); main never passes another value.
PollInterval == 3
\* main: for w in words[:30]
PreviewLimit == 30

(***************************************************************************)
(* JSON values as the tools see them after json.load / resp.json().        *)
(* A field of an object is Absent (no such key), Null, a number, a string  *)
(* (a sequence of pieces of text) or an array.                             *)
(***************************************************************************)
Absent == <<"absent">>
Null == <<"null">>
Num(n) == <<"num", n>>
Str(s) == <<"str", s>>

List(seq) == <<"list", seq>>

IsNum(v) == v[1] = "num"
IsStr(v) == v[1] = "str"
IsList(v) == v[1] = "list"

\* dict.get(key, default): the default only replaces a missing key, never a null.
Get(v, default) == IF v = Absent THEN default ELSE v

\* Python truthiness of a JSON value: None (also a missing key's), 0, "" and []
\* are falsy.
Truthy(v) ==
    CASE v = Absent -> FALSE
      [] v = Null -> FALSE
      [] IsNum(v) -> v[2] # 0
      [] IsStr(v) -> Len(v[2]) > 0
      [] IsList(v) -> Len(v[2]) > 0
      [] OTHER -> TRUE

Min(a, b) == IF a < b THEN a ELSE b

(***************************************************************************)
(* Exceptions: the class hierarchy of Python 3 and of requests, and the    *)
(* dispatch of a try statement to its first matching except clause.        *)
(***************************************************************************)
\* The direct base class of each exception class the tools can meet.
\* IOError is an alias of OSError; requests.RequestException derives from IOError.
BaseOf(cls) ==
    CASE cls = "FileNotFoundError" -> "OSError"
      [] cls = "PermissionError" -> "OSError"
      [] cls = "IsADirectoryError" -> "OSError"
      [] cls = "IOError" -> "OSError"
      [] cls = "ConnectionError" -> "RequestException"
      [] cls = "Timeout" -> "RequestException"
      [] cls = "RequestException" -> "OSError"
      [] cls = "OSError" -> "Exception"
      [] cls = "JSONDecodeError" -> "ValueError"
      [] cls = "ValueError" -> "Exception"
      [] cls = "TypeError" -> "Exception"
      [] cls = "AttributeError" -> "Exception"
      [] OTHER -> "BaseException"

\* The class a name in an except clause denotes.
Resolve(cls) == IF cls = "IOError" THEN "OSError" ELSE cls

RECURSIVE IsSubclass(_, _)
IsSubclass(cls, handler) ==
    IF Resolve(cls) = Resolve(handler) THEN TRUE
    ELSE IF cls = "BaseException" THEN FALSE
    ELSE IsSubclass(BaseOf(cls), handler)

\* The exit code of the first except clause of `handlers` (pairs <<class, code>>,
\* in source order) that matches `exc`; Unhandled when none does.
Unhandled == <<"unhandled">>
RECURSIVE Dispatch(_, _)
Dispatch(handlers, exc) ==
    IF handlers = <<>> THEN Unhandled
    ELSE IF IsSubclass(exc, Head(handlers)[1]) THEN <<"exit", Head(handlers)[2]>>
    ELSE Dispatch(Tail(handlers), exc)


(***************************************************************************)
(* Outcomes of a function of the tools: it returns a value, it ends the    *)
(* process through sys.exit(code), or an exception nobody catches ends the *)
(* process (the interpreter's exit status is then 1).                      *)
(***************************************************************************)
Return(v) == [kind |-> "return", code |-> 0, value |-> v]
SysExit(c) == [kind |-> "exit", code |-> c, value |-> Absent]
Uncaught == [kind |-> "crash", code |-> 1, value |-> Absent]

\* An exception raised inside a try statement with the except clauses `handlers`.
Raise(handlers, exc) ==
    LET d == Dispatch(handlers, exc)
    IN  IF d = Unhandled THEN Uncaught ELSE SysExit(d[2])

(***************************************************************************)
(* The service as the tools see it: one HTTP exchange either raises a      *)
(* requests exception or yields a status code and a body; a body is not    *)
(* JSON, JSON but not an object, or an object.                             *)
(***************************************************************************)
NonJson == [kind |-> "nonjson", obj |-> Absent]
NonDict == [kind |-> "nondict", obj |-> Absent]
Object(o) == [kind |-> "object", obj |-> o]

Response(raised, status, body) == [raised |-> raised, status |-> status, body |-> body]

OkResponse(obj) == Response("none", 200, Object(obj))

NetRaises == {"ConnectionError", "Timeout"}
HttpStatuses == {200, 201, 500}

\* Responses to an exchange whose object bodies carry a field from `objs`.
Responses(objs) ==
    {Response(r, 0, NonJson) : r \in NetRaises}
    \cup {Response("none", st, b) : st \in HttpStatuses,
                                     b \in {NonJson, NonDict} \cup {Object(o) : o \in objs}}

\* A URL is a string cut into its scheme prefix and the rest.
HttpsUrl == Str(<<"https://", "x/y">>)
HttpUrl == Str(<<"http://", "x/y">>)
UploadUrls == {Absent, Null, Str(<<>>), Num(7), HttpUrl, HttpsUrl}
TranscriptIds == {Absent, Null, Str(<<>>), Str(<<"abc">>)}

\* audio_url.startswith("https://")
StartsWithHttps(v) == IsStr(v) /\ Len(v[2]) > 0 /\ v[2][1] = "https://"

(***************************************************************************)
(* upload_file                                                             *)
(***************************************************************************)
\* The except clauses of upload_file's try statement, in source order.
UploadHandlers ==
    << <<"FileNotFoundError", 3>>, <<"PermissionError", 15>>,
       <<"IOError", 16>>, <<"RequestException", 4>> >>

\* `opened` is what open(audio_file, "rb") does: "ok" or the exception it raises.
upload_file(opened, resp) ==
    IF opened # "ok" THEN Raise(UploadHandlers, opened)
    ELSE IF resp.raised # "none" THEN Raise(UploadHandlers, resp.raised)
    ELSE IF resp.status \notin {200, 201} THEN SysExit(5)
    ELSE IF resp.body.kind = "nonjson"
         THEN Raise(<< <<"JSONDecodeError", 17>> >>, "JSONDecodeError")
    ELSE IF resp.body.kind = "nondict" THEN Raise(<< <<"JSONDecodeError", 17>> >>, "AttributeError")
    ELSE IF ~Truthy(resp.body.obj) THEN SysExit(6)
    ELSE Return(resp.body.obj)

\* requests.post is reached only once the file is open.
UploadSends(opened) == opened = "ok"

(***************************************************************************)
(* request_transcript                                                      *)
(***************************************************************************)
RequestSends(audio_url) == StartsWithHttps(audio_url)

request_transcript(audio_url, resp) ==
    IF ~RequestSends(audio_url) THEN SysExit(21)
    ELSE IF resp.raised # "none" THEN Raise(<< <<"RequestException", 7>> >>, resp.raised)
    ELSE IF resp.status \notin {200, 201} THEN SysExit(8)
    ELSE IF resp.body.kind = "nonjson"
         THEN Raise(<< <<"JSONDecodeError", 18>> >>, "JSONDecodeError")
    ELSE IF resp.body.kind = "nondict" THEN Raise(<< <<"JSONDecodeError", 18>> >>, "AttributeError")
    ELSE IF ~Truthy(resp.body.obj) THEN SysExit(9)
    ELSE Return(resp.body.obj)

(***************************************************************************)
(* Transcript documents and words.                                         *)
(***************************************************************************)

Word(text, start, end) == [text |-> text, start |-> start, end |-> end]

\* The fields of the words the service (or a JSON file) may hold.
WordTexts == {Absent, Str(<<" ">>), Str(<<"h", "i">>), Str(<<" ", "a", " ">>)}
WordStarts == {Absent, Null, Str(<<"x">>), Num(125500)}
WordEnds == {Absent, Null, Num(126000)}
Words == {Word(t, s, e) : t \in WordTexts, s \in WordStarts, e \in WordEnds}

\* The words of the documents the service returns: a well-formed word and the
\* malformed ones (a timestamp missing, null or not a number).
GoodWord == Word(Str(<<"h", "i">>), Num(125500), Num(126000))
ServiceWords ==
    {GoodWord,
     Word(Str(<<"h", "i">>), Null, Num(126000)),
     Word(Absent, Num(125500), Absent)}

SeqsUpTo(S, n) == UNION {[1..k -> S] : k \in 0..n}

RECURSIVE Repeat(_, _)
Repeat(x, n) == IF n = 0 THEN <<>> ELSE <<x>> \o Repeat(x, n - 1)

\* Word lists of a service document: short ones, and ones longer than the preview.
ServiceWordLists ==
    SeqsUpTo(ServiceWords, MaxWords)
    \cup {Repeat(GoodWord, PreviewLimit) \o <<w>> : w \in ServiceWords}

Document(status, id, text, words) ==
    [status |-> status, id |-> id, text |-> text, words |-> words]

Completed == Str(<<"completed">>)
Errored == Str(<<"error">>)
Statuses == {Absent, Null, Str(<<"queued">>), Str(<<"processing">>), Completed, Errored}

\* What a status poll can return as an object: a job still running or failed
\* (no transcript yet), or a completed one.
PollDocuments ==
    {Document(st, Str(<<"abc">>), Null, Null) : st \in Statuses \ {Completed}}
    \cup {Document(Completed, id, Str(<<"hello">>), w) :
            id \in {Absent, Str(<<"abc">>)},
            w \in {Absent, Null} \cup {List(l) : l \in ServiceWordLists}}

(***************************************************************************)
(* poll_transcript: one iteration of its loop, after the GET returned or   *)
(* raised; `elapsed` is time.time() - start_time read after the GET.       *)
(***************************************************************************)
Sleep == [kind |-> "sleep", code |-> 0, value |-> Absent]

\* status = result.get("status", "unknown")
StatusOf(doc) == Get(doc.status, Str(<<"unknown">>))

\* The timeout check with >= for >.
TimedOut_AtDeadline(elapsed, timeout) == elapsed >= timeout

\* elapsed > timeout
TimedOut(elapsed, timeout) == elapsed > timeout

\* The iteration with the deadline looked at before the status.
poll_decide_DeadlineFirst(doc, elapsed, timeout) ==
    IF StatusOf(doc) # Errored /\ TimedOut(elapsed, timeout) THEN SysExit(13)
    ELSE IF StatusOf(doc) = Completed THEN Return(doc)
    ELSE IF StatusOf(doc) = Errored THEN SysExit(12)
    ELSE Sleep

\* The part of the iteration after the body was parsed.
poll_decide(doc, elapsed, timeout) ==
    IF StatusOf(doc) = Completed THEN Return(doc)
    ELSE IF StatusOf(doc) = Errored THEN SysExit(12)
    ELSE IF TimedOut(elapsed, timeout) THEN SysExit(13)
    ELSE Sleep

\* The iteration with a non-200 answer slept on and polled again.
poll_iteration_RetryOnStatus(resp, elapsed, timeout) ==
    IF resp.raised # "none" THEN Raise(<< <<"RequestException", 10>> >>, resp.raised)
    ELSE IF resp.status # 200 THEN Sleep
    ELSE IF resp.body.kind = "nonjson"
         THEN Raise(<< <<"JSONDecodeError", 19>> >>, "JSONDecodeError")
    ELSE IF resp.body.kind = "nondict" THEN Raise(<< <<"JSONDecodeError", 19>> >>, "AttributeError")
    ELSE poll_decide(resp.body.obj, elapsed, timeout)

poll_iteration(resp, elapsed, timeout) ==
    IF resp.raised # "none" THEN Raise(<< <<"RequestException", 10>> >>, resp.raised)
    ELSE IF resp.status # 200 THEN SysExit(11)
    ELSE IF resp.body.kind = "nonjson"
         THEN Raise(<< <<"JSONDecodeError", 19>> >>, "JSONDecodeError")
    ELSE IF resp.body.kind = "nondict" THEN Raise(<< <<"JSONDecodeError", 19>> >>, "AttributeError")
    ELSE poll_decide(resp.body.obj, elapsed, timeout)

(***************************************************************************)
(* parse_words, save_output and the preview loop of main                   *)
(***************************************************************************)
\* transcript_data.get("words", [])
parse_words(doc) == Get(doc.words, List(<<>>))

\* The dumped object with the words cut as the preview cuts them.
OutputObject_PreviewWords(audio_file, doc, words) ==
    [kind |-> "json",
     source_file |-> audio_file,
     text |-> Get(doc.text, Str(<<>>)),
     words |-> IF IsList(words)
               THEN List(SubSeq(words[2], 1, Min(Len(words[2]), PreviewLimit)))
               ELSE words,
     meta |-> [status |-> Get(doc.status, Null), id |-> Get(doc.id, Null)]]

\* The object save_output dumps.
OutputObject(audio_file, doc, words) ==
    [kind |-> "json",
     source_file |-> audio_file,
     text |-> Get(doc.text, Str(<<>>)),
     words |-> words,
     meta |-> [status |-> Get(doc.status, Null), id |-> Get(doc.id, Null)]]

NoFile == [kind |-> "none"]
PartialFile == [kind |-> "partial"]

\* open(output_file, "w") + json.dump: "ok" or the exception raised.
WriteOutcomes == {"ok", "PermissionError", "OSError"}

save_output(wrote) ==
    IF wrote = "ok" THEN Return(Absent) ELSE Raise(<< <<"Exception", 14>> >>, wrote)

\* for w in words[:30]: w.get("start", 0) / 1000, w.get("end", 0) / 1000
PreviewFaults(w) == ~IsNum(Get(w.start, Num(0))) \/ ~IsNum(Get(w.end, Num(0)))

preview(words) ==
    IF ~IsList(words) THEN Uncaught
    ELSE IF \E i \in 1..Min(Len(words[2]), PreviewLimit) : PreviewFaults(words[2][i])
         THEN Uncaught
    ELSE SysExit(0)

(***************************************************************************)
(* The transcription tool: one invocation of main().                       *)
(***************************************************************************)
VARIABLES
    pc,             \* where main is: "main", "upload", "request", "start_poll",
                    \* "poll", "save", "preview"; "exit", "crashed" once it ended
    exitCode,       \* the process's exit status; -1 while it runs
    argModel,       \* --model
    argTimeout,     \* --timeout
    apiKey,         \* os.environ.get("AAI_API_KEY")
    audioFile,      \* what opening the audio file does
    now,            \* time.time(), in seconds
    start_time,     \* poll_transcript's start_time
    nUpload,        \* requests sent to the upload endpoint
    nSubmit,        \* requests sent to the submission endpoint
    nPoll,          \* requests sent to the status endpoint
    nSleep,         \* time.sleep calls of the polling loop
    upload_url,     \* main's upload_url
    transcript_id,  \* main's transcript_id
    result,         \* the document of the last parsed poll response
    lastExchange,   \* the last HTTP exchange: its step, the response, and for a
                    \* poll the elapsed time read after it
    words,          \* main's words
    outFile,        \* the output file
    \* the parsing tool: one invocation of auralynx_parse
    ppc,            \* where it is: "load", "listing", "output"; "exit", "crashed"
    pexit,          \* the process's exit status; -1 while it runs
    jsonFile,       \* the input file
    lrcFlag,        \* --lrc
    pwords,         \* auralynx_parse's words
    console,        \* the lines of the timestamp loop and the WORD_DATA rows
    lrcFile,        \* the LRC file
    \* one call of format_seconds_to_lrc_ts
    fmtIn,          \* the start time, in milliseconds
    fmtOut,         \* the fields and the string it returns
    \* two runs that end, side by side
    scenario,       \* what happens to each run
    outcome         \* how each run ended

coreVars ==
    <<pc, exitCode, argModel, argTimeout, apiKey, audioFile, now, start_time,
      nUpload, nSubmit, nPoll, nSleep, upload_url, transcript_id, result,
      lastExchange, words, outFile>>

parseVars == <<ppc, pexit, jsonFile, lrcFlag, pwords, console, lrcFile>>
fmtVars == <<fmtIn, fmtOut>>
exitVars == <<scenario, outcome>>
vars == <<coreVars, parseVars, fmtVars, exitVars>>

allowed_models == {"slam-1", "universal"}
Models == allowed_models \cup {"invalid-model"}
Timeouts == (-1)..MaxTimeout
ApiKeys == {Absent, Str(<<>>), Str(<<"k">>)}
OpenOutcomes == {"ok", "FileNotFoundError", "PermissionError", "OSError"}

NoDocument == Document(Absent, Absent, Absent, Absent)
Exchange(step, resp, elapsed) == [step |-> step, resp |-> resp, elapsed |-> elapsed]
NoExchange == Exchange("none", Response("none", 0, NonJson), 0)

CoreInit ==
    /\ pc = "main"
    /\ exitCode = -1
    /\ argModel \in Models
    /\ argTimeout \in Timeouts
    /\ apiKey \in ApiKeys
    /\ audioFile \in OpenOutcomes
    /\ now = 0
    /\ start_time = 0
    /\ nUpload = 0 /\ nSubmit = 0 /\ nPoll = 0 /\ nSleep = 0
    /\ upload_url = Absent
    /\ transcript_id = Absent
    /\ result = NoDocument
    /\ lastExchange = NoExchange
    /\ words = Absent
    /\ outFile = NoFile

\* sys.exit(code), or the interpreter ending on an uncaught exception.
Terminate(o) ==
    /\ pc' = IF o.kind = "crash" THEN "crashed" ELSE "exit"
    /\ exitCode' = o.code

\* if args.model not in allowed_models
ModelAllowed(m) == m \in allowed_models

\* main without the model check.
main_start_NoModelCheck(m, key) == IF ~Truthy(key) THEN SysExit(2) ELSE Return(key)

\* main up to the first call: the model check, then get_api_key.
main_start(m, key) ==
    IF ~ModelAllowed(m) THEN SysExit(20)
    ELSE IF ~Truthy(key) THEN SysExit(2)
    ELSE Return(key)

MainStart ==
    /\ pc = "main"
    /\ LET o == main_start(argModel, apiKey)
       IN  IF o.kind = "return"
           THEN pc' = "upload" /\ UNCHANGED exitCode
           ELSE Terminate(o)
    /\ UNCHANGED <<parseVars, fmtVars, exitVars>>
    /\ UNCHANGED <<argModel, argTimeout, apiKey, audioFile, now, start_time,
                   nUpload, nSubmit, nPoll, nSleep, upload_url, transcript_id,
                   result, lastExchange, words, outFile>>

\* upload_url = upload_file(audio_file, api_key)
UploadFile ==
    /\ pc = "upload"
    /\ \E resp \in Responses(UploadUrls), d \in 0..MaxFetch :
         LET o == upload_file(audioFile, resp)
         IN  /\ nUpload' = nUpload + (IF UploadSends(audioFile) THEN 1 ELSE 0)
             /\ now' = now + (IF UploadSends(audioFile) THEN d ELSE 0)
             /\ lastExchange' = IF UploadSends(audioFile)
                                THEN Exchange("upload", resp, 0) ELSE lastExchange
             /\ IF o.kind = "return"
                THEN pc' = "request" /\ upload_url' = o.value /\ UNCHANGED exitCode
                ELSE Terminate(o) /\ UNCHANGED upload_url
    /\ UNCHANGED <<parseVars, fmtVars, exitVars>>
    /\ UNCHANGED <<argModel, argTimeout, apiKey, audioFile, start_time,
                   nSubmit, nPoll, nSleep, transcript_id, result, words, outFile>>

\* transcript_id = request_transcript(upload_url, api_key, options=...)
RequestTranscript ==
    /\ pc = "request"
    /\ \E resp \in Responses(TranscriptIds), d \in 0..MaxFetch :
         LET o == request_transcript(upload_url, resp)
         IN  /\ nSubmit' = nSubmit + (IF RequestSends(upload_url) THEN 1 ELSE 0)
             /\ now' = now + (IF RequestSends(upload_url) THEN d ELSE 0)
             /\ lastExchange' = IF RequestSends(upload_url)
                                THEN Exchange("request", resp, 0) ELSE lastExchange
             /\ IF o.kind = "return"
                THEN pc' = "start_poll" /\ transcript_id' = o.value /\ UNCHANGED exitCode
                ELSE Terminate(o) /\ UNCHANGED transcript_id
    /\ UNCHANGED <<parseVars, fmtVars, exitVars>>
    /\ UNCHANGED <<argModel, argTimeout, apiKey, audioFile, start_time,
                   nUpload, nPoll, nSleep, upload_url, result, words, outFile>>

\* poll_transcript up to its loop: start_time = time.time()
StartPoll ==
    /\ pc = "start_poll"
    /\ start_time' = now
    /\ pc' = "poll"
    /\ UNCHANGED <<parseVars, fmtVars, exitVars>>
    /\ UNCHANGED <<exitCode, argModel, argTimeout, apiKey, audioFile, now,
                   nUpload, nSubmit, nPoll, nSleep, upload_url, transcript_id,
                   result, lastExchange, words, outFile>>

\* elapsed = time.time() - start_time
Elapsed(t, start) == t - start

\* One iteration of poll_transcript's loop: the GET, the decision, the sleep.
PollIterationWith(responses) ==
    /\ pc = "poll"
    /\ \E resp \in responses, d \in 0..MaxFetch :
         LET t == now + d
             e == Elapsed(t, start_time)
             o == poll_iteration(resp, e, argTimeout)
             parsed == resp.raised = "none" /\ resp.status = 200
                       /\ resp.body.kind = "object"
         IN  /\ nPoll' = nPoll + 1
             /\ lastExchange' = Exchange("poll", resp, e)
             /\ result' = IF parsed THEN resp.body.obj ELSE result
             /\ CASE o.kind = "sleep" ->
                       /\ now' = t + PollInterval
                       /\ nSleep' = nSleep + 1
                       /\ UNCHANGED <<pc, exitCode>>
                  [] o.kind = "return" ->
                       /\ now' = t
                       /\ pc' = "save"
                       /\ UNCHANGED <<nSleep, exitCode>>
                  [] OTHER ->
                       /\ now' = t
                       /\ Terminate(o)
                       /\ UNCHANGED nSleep
    /\ UNCHANGED <<parseVars, fmtVars, exitVars>>
    /\ UNCHANGED <<argModel, argTimeout, apiKey, audioFile, start_time,
                   nUpload, nSubmit, upload_url, transcript_id, words, outFile>>

\* Against a service that may answer anything.
PollIteration == PollIterationWith(Responses(PollDocuments))

\* Against a service whose job never reaches a terminal status: every status
\* fetch succeeds (HTTP 200, a JSON object) with a status other than "completed"
\* and "error", or with none.
StuckDocuments == {d \in PollDocuments : d.status \notin {Completed, Errored}}
PollStuck == PollIterationWith({OkResponse(d) : d \in StuckDocuments})

\* words = parse_words(result, args.model); save_output(audio_file, result, words, ...)
SaveOutput ==
    /\ pc = "save"
    /\ words' = parse_words(result)
    /\ \E wrote \in WriteOutcomes :
         LET o == save_output(wrote)
         IN  IF o.kind = "return"
             THEN /\ outFile' = OutputObject(audioFile, result, words')
                  /\ pc' = "preview"
                  /\ UNCHANGED exitCode
             ELSE /\ outFile' \in {NoFile, PartialFile}
                  /\ Terminate(o)
    /\ UNCHANGED <<parseVars, fmtVars, exitVars>>
    /\ UNCHANGED <<argModel, argTimeout, apiKey, audioFile, now, start_time,
                   nUpload, nSubmit, nPoll, nSleep, upload_url, transcript_id,
                   result, lastExchange>>

\* The preview loop of main, then sys.exit(0).
Preview ==
    /\ pc = "preview"
    /\ Terminate(preview(words))
    /\ UNCHANGED <<parseVars, fmtVars, exitVars>>
    /\ UNCHANGED <<argModel, argTimeout, apiKey, audioFile, now, start_time,
                   nUpload, nSubmit, nPoll, nSleep, upload_url, transcript_id,
                   result, lastExchange, words, outFile>>

CoreNext ==
    \/ MainStart
    \/ UploadFile
    \/ RequestTranscript
    \/ StartPoll
    \/ PollIteration
    \/ SaveOutput
    \/ Preview

(***************************************************************************)
(* format_seconds_to_lrc_ts, on the start time in milliseconds: its        *)
(* callers pass sec = start_ms / 1000.0, a double.                         *)
(***************************************************************************)
RECURSIVE Pow2Mod1000(_)
Pow2Mod1000(k) == IF k = 0 THEN 1 ELSE (2 * Pow2Mod1000(k - 1)) % 1000

RECURSIVE Log2(_)
Log2(n) == IF n < 2 THEN 0 ELSE 1 + Log2(n \div 2)

RECURSIVE ShiftsTo1000(_)
ShiftsTo1000(ms) == IF ms >= 1000 THEN 0 ELSE 1 + ShiftsTo1000(2 * ms)

\* The binary exponent e of ms / 1000 (ms > 0): 2^e <= ms / 1000 < 2^(e + 1).
Exponent(ms) == IF ms >= 1000 THEN Log2(ms \div 1000) ELSE -ShiftsTo1000(ms)

\* Whether the double nearest to ms / 1000 (53 significant bits) lies above it:
\* the remainder of ms * 2^(52 - e) by 1000 decides the rounding of the quotient.
DoubleAbove(ms) == ((ms % 1000) * Pow2Mod1000(52 - Exponent(ms))) % 1000 > 500

\* The minutes wrapped at the hour.
LrcMinutes_Wrapped(ms) == (ms \div 60000) % 60

\* minutes = int(sec // 60)
LrcMinutes(ms) == ms \div 60000

\* seconds = sec - minutes * 60 as "%.2f" prints it, in hundredths of a second.
\* The subtraction is exact, so the printed value is the double start_ms / 1000.0
\* less the whole minutes, rounded to two decimals: half-way cases go the way the
\* double lies from the decimal, and to the even digit when the double is exact
\* (ms a multiple of 125).
LrcCentis(ms) ==
    LET r == ms % 60000
        c == r \div 10
        d == r % 10
    IN  IF d < 5 THEN c
        ELSE IF d > 5 THEN c + 1
        ELSE IF ms % 125 = 0 THEN (IF c % 2 = 1 THEN c + 1 ELSE c)
        ELSE IF DoubleAbove(ms) THEN c + 1 ELSE c

\* "%02d": at least two digits, zero-padded.
Pad2(n) == IF n < 10 THEN "0" \o ToString(n) ELSE ToString(n)

\* f"{minutes:02d}" and f"{seconds:05.2f}"
LrcFields(ms) ==
    [minutes |-> Pad2(LrcMinutes(ms)),
     seconds |-> Pad2(LrcCentis(ms) \div 100) \o "." \o Pad2(LrcCentis(ms) % 100)]

format_seconds_to_lrc_ts(ms) == LrcFields(ms).minutes \o ":" \o LrcFields(ms).seconds

(***************************************************************************)
(* The parsing tool: load_json, the loops of auralynx_parse, export_lrc.   *)
(***************************************************************************)
MissingFile == [kind |-> "missing", obj |-> Absent]
UnreadableFile == [kind |-> "unreadable", obj |-> Absent]

\* json.load of the input file: the value, or the exception of open / json.load.
load_json(file) ==
    LET handlers == << <<"FileNotFoundError", 2>>, <<"JSONDecodeError", 3>> >>
    IN  CASE file.kind = "missing" -> Raise(handlers, "FileNotFoundError")
          [] file.kind = "unreadable" -> Raise(handlers, "PermissionError")
          [] file.kind = "nonjson" -> Raise(handlers, "JSONDecodeError")
          [] OTHER -> Return(file)

\* auralynx_parse up to its first loop; an object file holds its "words" field.
parse_load(file) ==
    LET data == load_json(file)
    IN  IF data.kind # "return" THEN data
        ELSE IF file.kind = "nondict" THEN Uncaught
        ELSE LET w == Get(file.obj, List(<<>>))
             IN  IF ~Truthy(w) THEN SysExit(5)
                 ELSE IF ~IsList(w) THEN SysExit(5)
                 ELSE Return(w)

\* start_ms is None or end_ms is None
MissingTimestamp(w) == Get(w.start, Null) = Null \/ Get(w.end, Null) = Null

\* start_ms / 1000 or end_ms / 1000 raises TypeError
InvalidTimestamp(w) == ~IsNum(w.start) \/ ~IsNum(w.end)

\* What the timestamp loop prints for one word.
ListingLine(w) ==
    IF MissingTimestamp(w) THEN [kind |-> "warning_missing", text |-> Get(w.text, Str(<<"unknown">>))]
    ELSE IF InvalidTimestamp(w) THEN [kind |-> "warning_invalid", text |-> Get(w.text, Str(<<"unknown">>))]
    ELSE [kind |-> "row", text |-> Get(w.text, Str(<<>>))]

RECURSIVE Listing(_)
Listing(ws) == IF ws = <<>> THEN <<>> ELSE <<ListingLine(Head(ws))>> \o Listing(Tail(ws))

\* text.replace("'", "\\'")
RECURSIVE Escape(_)
Escape(chars) ==
    IF chars = <<>> THEN <<>>
    ELSE (IF Head(chars) = "'" THEN <<"\\", "'">> ELSE <<Head(chars)>>) \o Escape(Tail(chars))

\* The WORD_DATA loop: the rows it prints.
RECURSIVE WordData(_)
WordData(ws) ==
    IF ws = <<>> THEN <<>>
    ELSE (IF MissingTimestamp(Head(ws)) \/ InvalidTimestamp(Head(ws)) THEN <<>>
          ELSE << [word |-> Escape(Get(Head(ws).text, Str(<<>>))[2]),
                   start |-> Head(ws).start[2], end |-> Head(ws).end[2]] >>)
         \o WordData(Tail(ws))

\* str.strip()
IsSpace(ch) == ch \in {" ", "\t", "\n"}
RECURSIVE LStrip(_)
LStrip(chars) ==
    IF chars # <<>> /\ IsSpace(Head(chars)) THEN LStrip(Tail(chars)) ELSE chars
RECURSIVE RStrip(_)
RStrip(chars) ==
    IF chars # <<>> /\ IsSpace(chars[Len(chars)])
    THEN RStrip(SubSeq(chars, 1, Len(chars) - 1)) ELSE chars
Strip(chars) == RStrip(LStrip(chars))

\* The characters of a string, as one string.
RECURSIVE Join(_)
Join(chars) == IF chars = <<>> THEN "" ELSE Head(chars) \o Join(Tail(chars))

\* w.get('text', '').strip()
LrcText(w) == Strip(Get(w.text, Str(<<>>))[2])

\* The skip test without the text.
LrcSkips_NoTextCheck(w) == Get(w.start, Null) = Null

\* if start_ms is None or not text: continue
LrcSkips(w) == Get(w.start, Null) = Null \/ LrcText(w) = <<>>

\* The loop of export_lrc: the lines it collects.
RECURSIVE LrcLines(_)
LrcLines(ws) ==
    IF ws = <<>> THEN <<>>
    ELSE LET w == Head(ws)
         IN  (IF LrcSkips(w) THEN <<>>
              ELSE IF ~IsNum(w.start) THEN <<>>
              ELSE << "[" \o format_seconds_to_lrc_ts(w.start[2]) \o "]" \o Join(LrcText(w)) >>)
             \o LrcLines(Tail(ws))

\* sys.exit(0) at the end of either branch of auralynx_parse
parse_finish == SysExit(0)

\* The write of export_lrc: "ok" or the exception of open / write.
export_lrc(wrote) ==
    IF wrote = "ok" THEN Return(Absent)
    ELSE Raise(<< <<"PermissionError", 6>>, <<"IOError", 4>> >>, wrote)

(***************************************************************************)
(* The parsing tool as a state machine.                                    *)
(***************************************************************************)
\* The "words" field of an input file: missing, null, empty, not a list, a list.
FileWords ==
    {Absent, Null, Str(<<"x">>)} \cup {List(l) : l \in SeqsUpTo(Words, MaxWords)}

JsonFiles == {MissingFile, UnreadableFile, NonJson, NonDict} \cup {Object(w) : w \in FileWords}

NoLrc == <<"none">>
LrcOf(lines) == <<"lrc", lines>>

ParseInit ==
    /\ ppc = "load"
    /\ pexit = -1
    /\ jsonFile \in JsonFiles
    /\ lrcFlag \in BOOLEAN
    /\ pwords = <<>>
    /\ console = <<>>
    /\ lrcFile = NoLrc

ParseTerminate(o) ==
    /\ ppc' = IF o.kind = "crash" THEN "crashed" ELSE "exit"
    /\ pexit' = o.code

\* data = load_json(json_file) and the checks of the words field
ParseLoad ==
    /\ ppc = "load"
    /\ LET o == parse_load(jsonFile)
       IN  IF o.kind = "return"
           THEN ppc' = "listing" /\ pwords' = o.value[2] /\ UNCHANGED pexit
           ELSE ParseTerminate(o) /\ UNCHANGED pwords
    /\ UNCHANGED <<jsonFile, lrcFlag, console, lrcFile>>
    /\ UNCHANGED <<coreVars, fmtVars, exitVars>>

\* The WORD-LEVEL TIMESTAMPS loop.
ParseListing ==
    /\ ppc = "listing"
    /\ console' = Listing(pwords)
    /\ ppc' = "output"
    /\ UNCHANGED <<pexit, jsonFile, lrcFlag, pwords, lrcFile>>
    /\ UNCHANGED <<coreVars, fmtVars, exitVars>>

\* if export_lrc_flag: export_lrc(words, lrc_out); sys.exit(0)
ParseExportLrc ==
    /\ ppc = "output"
    /\ lrcFlag
    /\ \E wrote \in WriteOutcomes :
         LET o == export_lrc(wrote)
         IN  IF o.kind = "return"
             THEN lrcFile' = LrcOf(LrcLines(pwords)) /\ ParseTerminate(parse_finish)
             ELSE UNCHANGED lrcFile /\ ParseTerminate(o)
    /\ UNCHANGED <<jsonFile, lrcFlag, pwords, console>>
    /\ UNCHANGED <<coreVars, fmtVars, exitVars>>

\* else: the WORD_DATA loop; sys.exit(0)
ParseWordData ==
    /\ ppc = "output"
    /\ ~lrcFlag
    /\ console' = console \o WordData(pwords)
    /\ ParseTerminate(parse_finish)
    /\ UNCHANGED <<jsonFile, lrcFlag, pwords, lrcFile>>
    /\ UNCHANGED <<coreVars, fmtVars, exitVars>>

ParseNext ==
    \/ ParseLoad
    \/ ParseListing
    \/ ParseExportLrc
    \/ ParseWordData

(***************************************************************************)
(* One call of format_seconds_to_lrc_ts.                                   *)
(***************************************************************************)
\* Start times: whole minutes up to 100, with seconds and milliseconds at and
\* around the rounding boundaries, and every millisecond around the first minute.
FmtInputs ==
    {m * 60000 + sec * 1000 + f :
        m \in {0, 1, 2, 59, 60, 61, 99, 100},
        sec \in {0, 1, 5, 59},
        f \in {0, 4, 5, 125, 375, 500, 994, 995, 999}}
    \cup 59980..60020

NotFormatted == [minutes |-> "", seconds |-> "", ts |-> ""]

FmtInit ==
    /\ fmtIn \in FmtInputs
    /\ fmtOut = NotFormatted

Format ==
    /\ fmtOut = NotFormatted
    /\ fmtOut' = [minutes |-> LrcFields(fmtIn).minutes,
                  seconds |-> LrcFields(fmtIn).seconds,
                  ts |-> format_seconds_to_lrc_ts(fmtIn)]
    /\ UNCHANGED fmtIn
    /\ UNCHANGED <<coreVars, parseVars, exitVars>>

FmtNext == Format

(***************************************************************************)
(* The ways a run of either tool ends, side by side: each failure category *)
(* with an environment that produces it, run through the code above.       *)
(***************************************************************************)
Running == Document(Str(<<"processing">>), Str(<<"abc">>), Null, Null)
Failed == Document(Errored, Str(<<"abc">>), Null, Null)

CoreCategories ==
    {"missing credential", "invalid model", "file not found", "permission denied",
     "io error", "upload transport", "upload http status", "upload malformed json",
     "upload missing field", "submit invalid url", "submit transport",
     "submit http status", "submit malformed json", "submit missing field",
     "poll transport", "poll http status", "poll malformed json",
     "transcription error", "timeout", "output write", "normal end"}

ParseCategories ==
    {"file not found", "malformed json", "invalid structure", "permission denied",
     "output write", "normal end"}

ExitScenarios ==
    {[tool |-> "core", category |-> c] : c \in CoreCategories}
    \cup {[tool |-> "parse", category |-> c] : c \in ParseCategories}

CoreEnd(c) ==
    CASE c = "missing credential" -> main_start("universal", Absent)
      [] c = "invalid model" -> main_start("invalid-model", Str(<<"k">>))
      [] c = "file not found" -> upload_file("FileNotFoundError", OkResponse(HttpsUrl))
      [] c = "permission denied" -> upload_file("PermissionError", OkResponse(HttpsUrl))
      [] c = "io error" -> upload_file("OSError", OkResponse(HttpsUrl))
      [] c = "upload transport" -> upload_file("ok", Response("ConnectionError", 0, NonJson))
      [] c = "upload http status" -> upload_file("ok", Response("none", 500, Object(HttpsUrl)))
      [] c = "upload malformed json" -> upload_file("ok", Response("none", 200, NonJson))
      [] c = "upload missing field" -> upload_file("ok", OkResponse(Absent))
      [] c = "submit invalid url" -> request_transcript(HttpUrl, OkResponse(Str(<<"abc">>)))
      [] c = "submit transport" ->
            request_transcript(HttpsUrl, Response("ConnectionError", 0, NonJson))
      [] c = "submit http status" ->
            request_transcript(HttpsUrl, Response("none", 500, Object(Str(<<"abc">>))))
      [] c = "submit malformed json" ->
            request_transcript(HttpsUrl, Response("none", 200, NonJson))
      [] c = "submit missing field" -> request_transcript(HttpsUrl, OkResponse(Absent))
      [] c = "poll transport" -> poll_iteration(Response("Timeout", 0, NonJson), 0, 0)
      [] c = "poll http status" -> poll_iteration(Response("none", 500, Object(Running)), 0, 0)
      [] c = "poll malformed json" -> poll_iteration(Response("none", 200, NonJson), 0, 0)
      [] c = "transcription error" -> poll_iteration(OkResponse(Failed), 0, 0)
      [] c = "timeout" -> poll_iteration(OkResponse(Running), 1, 0)
      [] c = "output write" -> save_output("OSError")
      [] OTHER -> preview(List(<<GoodWord>>))

ParseEnd(c) ==
    CASE c = "file not found" -> parse_load(MissingFile)
      [] c = "malformed json" -> parse_load(NonJson)
      [] c = "invalid structure" -> parse_load(Object(Absent))
      [] c = "permission denied" -> export_lrc("PermissionError")
      [] c = "output write" -> export_lrc("OSError")
      [] OTHER -> parse_finish

EndOf(s) == IF s.tool = "core" THEN CoreEnd(s.category) ELSE ParseEnd(s.category)

StillRunning == [kind |-> "running", code |-> -1, value |-> Absent]

ExitInit ==
    /\ scenario \in ExitScenarios \X ExitScenarios
    /\ outcome = <<StillRunning, StillRunning>>

EndRun(i) ==
    /\ outcome[i] = StillRunning
    /\ outcome' = [outcome EXCEPT ![i] = EndOf(scenario[i])]
    /\ UNCHANGED scenario
    /\ UNCHANGED <<coreVars, parseVars, fmtVars>>

ExitNext == \E i \in {1, 2} : EndRun(i)

(***************************************************************************)
(* Specifications: each machine on its own, the others idle.               *)
(***************************************************************************)
CoreIdle ==
    /\ pc = "idle" /\ exitCode = -1 /\ argModel = "universal" /\ argTimeout = 0
    /\ apiKey = Absent /\ audioFile = "ok" /\ now = 0 /\ start_time = 0
    /\ nUpload = 0 /\ nSubmit = 0 /\ nPoll = 0 /\ nSleep = 0
    /\ upload_url = Absent /\ transcript_id = Absent /\ result = NoDocument
    /\ lastExchange = NoExchange /\ words = Absent /\ outFile = NoFile

ParseIdle ==
    /\ ppc = "idle" /\ pexit = -1 /\ jsonFile = MissingFile /\ lrcFlag = FALSE
    /\ pwords = <<>> /\ console = <<>> /\ lrcFile = NoLrc

FmtIdle == fmtIn = 0 /\ fmtOut = NotFormatted

ExitIdle ==
    /\ scenario = <<[tool |-> "core", category |-> "normal end"],
                    [tool |-> "core", category |-> "normal end"]>>
    /\ outcome = <<StillRunning, StillRunning>>

\* The transcription tool.
Init == CoreInit /\ ParseIdle /\ FmtIdle /\ ExitIdle
Next == CoreNext
Spec == Init /\ [][Next]_vars

\* The transcription tool against a service whose job never finishes. The tool
\* is one sequential process and every call it makes returns or raises (each
\* request carries a timeout), so it takes a step whenever it can.
StuckNext ==
    \/ MainStart
    \/ UploadFile
    \/ RequestTranscript
    \/ StartPoll
    \/ PollStuck
StuckSpec == Init /\ [][StuckNext]_vars /\ WF_vars(StuckNext)

\* The parsing tool.
ParseSpecInit == ParseInit /\ CoreIdle /\ FmtIdle /\ ExitIdle
ParseSpec == ParseSpecInit /\ [][ParseNext]_vars

\* The timestamp formatter.
FmtSpecInit == FmtInit /\ CoreIdle /\ ParseIdle /\ ExitIdle
FmtSpec == FmtSpecInit /\ [][FmtNext]_vars

\* Exit codes.
ExitSpecInit == ExitInit /\ CoreIdle /\ ParseIdle /\ FmtIdle
ExitSpec == ExitSpecInit /\ [][ExitNext]_vars

(***************************************************************************)
(* Properties.                                                             *)
(***************************************************************************)
Terminated == pc \in {"exit", "crashed"}

\* The exchange was a status poll that came back 200 with a JSON object.
PollParsed(ex) ==
    /\ ex.step = "poll"
    /\ ex.resp.raised = "none"
    /\ ex.resp.status = 200
    /\ ex.resp.body.kind = "object"

\* ... whose status is neither "completed" nor "error" (or is missing).
NonTerminal(ex) == PollParsed(ex) /\ ex.resp.body.obj.status \notin {Completed, Errored}

\* The step is an iteration of the polling loop.
PollStep == nPoll' = nPoll + 1

\* C1, step by step: a poll that finds the job still running exits with code 13
\* exactly when the time since the loop began exceeds the timeout, and sleeps
\* otherwise; the loop never sleeps once the deadline has passed.
C1_PollStep ==
    /\ (PollStep /\ NonTerminal(lastExchange')) =>
          \/ /\ pc' = "exit" /\ exitCode' = 13 /\ nSleep' = nSleep
             /\ now' - start_time > argTimeout
          \/ /\ pc' = "poll" /\ exitCode' = -1 /\ nSleep' = nSleep + 1
             /\ (now' - PollInterval) - start_time <= argTimeout
    /\ (nSleep' # nSleep) =>
          /\ nSleep' = nSleep + 1
          /\ PollStep
          /\ (now' - PollInterval) - start_time <= argTimeout

\* C1, the count: a run that times out has slept at most timeout div interval + 1
\* times, and exactly that often when the fetches take no time (timeout = 5,
\* interval = 3: two sleeps, three polls).
C1_Count ==
    (exitCode = 13) =>
        /\ nPoll = nSleep + 1
        /\ nSleep <= (argTimeout \div PollInterval) + 1
        /\ (now - start_time = PollInterval * nSleep
              => nSleep = (argTimeout \div PollInterval) + 1)
        /\ now - start_time > argTimeout

\* C1: poll_transcript always terminates when the job never reaches a terminal
\* status: against a service whose every status fetch succeeds with a non-terminal
\* status, each poll either exits with code 13 (elapsed time strictly above the
\* timeout) or sleeps (not above it), and the loop, once entered, ends with exit
\* code 13 after finitely many polls.
C1_TimeoutTerminates ==
    /\ [][C1_PollStep]_vars
    /\ [](C1_Count)
    /\ (pc = "poll" ~> (pc = "exit" /\ exitCode = 13))

C1_Witness ==
    /\ exitCode = 13 /\ argTimeout = 5 /\ nSleep = 2 /\ nPoll = 3
    /\ NonTerminal(lastExchange)

\* C2: after a successful fetch the status alone decides, before the deadline:
\* "completed" returns the document (even past the deadline), "error" exits with
\* code 12, and any other or missing status leads only to the timeout check, then
\* to exit 13 or to sleep and retry.
C2_StatusDecides ==
    [][(PollStep /\ PollParsed(lastExchange')) =>
          LET doc == lastExchange'.resp.body.obj
          IN  /\ (doc.status = Completed) =>
                    pc' = "save" /\ result' = doc /\ exitCode' = -1 /\ nSleep' = nSleep
              /\ (doc.status = Errored) => pc' = "exit" /\ exitCode' = 12
              /\ (doc.status \notin {Completed, Errored}) =>
                    \/ pc' = "exit" /\ exitCode' = 13 /\ nSleep' = nSleep
                    \/ pc' = "poll" /\ exitCode' = -1 /\ nSleep' = nSleep + 1]_vars

C2_Witness ==
    /\ pc = "save"
    /\ PollParsed(lastExchange)
    /\ lastExchange.resp.body.obj.status = Completed
    /\ now - start_time > argTimeout
    /\ nPoll >= 2

\* The exchange failed: a transport failure, a non-success status, a body that is
\* not a JSON object, or (upload, submit) an object without the expected field.
ExchangeFailed(ex) ==
    /\ ex.step # "none"
    /\ \/ ex.resp.raised # "none"
       \/ ex.step \in {"upload", "request"} /\ ex.resp.status \notin {200, 201}
       \/ ex.step = "poll" /\ ex.resp.status # 200
       \/ ex.resp.body.kind # "object"
       \/ ex.step \in {"upload", "request"} /\ ex.resp.body.obj = Absent

Requests == <<nUpload, nSubmit, nPoll>>

\* C3: no failed network call is retried and nothing runs after a failure: upload
\* and submit are each called at most once, a failed exchange ends the process at
\* once with a failure status, no further request and no output file, and the only
\* request ever repeated is a poll after a poll that found the job still running.
C3_NoRetry ==
    [][/\ nUpload' <= 1 /\ nSubmit' <= 1
       /\ (Requests' # Requests /\ ExchangeFailed(lastExchange')) =>
             Terminated' /\ exitCode' \notin {-1, 0} /\ outFile' = NoFile
       /\ ExchangeFailed(lastExchange) => (Requests' = Requests /\ outFile' = outFile)
       /\ Terminated => (Requests' = Requests /\ outFile' = outFile)
       /\ (PollStep /\ nPoll >= 1) => NonTerminal(lastExchange)]_vars

C3_Witness ==
    /\ Terminated /\ nPoll >= 2 /\ nUpload = 1 /\ nSubmit = 1
    /\ lastExchange.step = "poll" /\ lastExchange.resp.status = 500
    /\ outFile = NoFile

\* C5: with a --model other than "universal" or "slam-1" the tool ends with exit
\* code 20 before any HTTP call: no upload, submit or poll request is ever sent,
\* whatever the credential and the audio file.
C5_InvalidModel ==
    (argModel \notin {"universal", "slam-1"}) =>
        /\ nUpload = 0 /\ nSubmit = 0 /\ nPoll = 0
        /\ pc \in {"main", "exit"}
        /\ (pc = "exit" => exitCode = 20)
        /\ outFile = NoFile

C5_Witness ==
    /\ argModel = "invalid-model" /\ pc = "exit" /\ exitCode = 20
    /\ apiKey = Str(<<"k">>) /\ audioFile = "ok"

\* C6: the steps run in the order upload, submit, poll, write, each after the
\* previous one succeeded; a written output file holds the words array of the
\* completed document of the last poll (an empty array when that document has no
\* words field), meta.status "completed" and that document's id.
C6_OutputAfterCompleted ==
    /\ (nSubmit > 0) => (nUpload = 1 /\ StartsWithHttps(upload_url))
    /\ (nPoll > 0) => (nSubmit = 1 /\ Truthy(transcript_id))
    /\ (outFile.kind = "json") =>
          /\ nUpload = 1 /\ nSubmit = 1 /\ nPoll >= 1
          /\ PollParsed(lastExchange)
          /\ LET doc == lastExchange.resp.body.obj
             IN  /\ doc.status = Completed
                 /\ outFile.words = (IF doc.words = Absent THEN List(<<>>) ELSE doc.words)
                 /\ outFile.meta.status = Completed
                 /\ outFile.meta.id = (IF doc.id = Absent THEN Null ELSE doc.id)
    /\ (outFile.kind # "none") => pc \in {"preview", "exit", "crashed"}

C6_Witness ==
    /\ outFile.kind = "json"
    /\ nPoll >= 2
    /\ IsList(outFile.words) /\ Len(outFile.words[2]) > PreviewLimit
    /\ outFile.meta.id = Str(<<"abc">>)

\* A words list holds an entry whose start or end is absent or null.
HasMissingTimestamp(ws) ==
    \E i \in 1..Len(ws) : ws[i].start \in {Absent, Null} \/ ws[i].end \in {Absent, Null}

\* C8: malformed word entries (missing timestamps) are skipped, not fatal: a run of
\* the transcription tool that wrote the output for a completed document with such
\* an entry ends normally, with exit code 0.
C8_MalformedNotFatal ==
    (Terminated /\ outFile.kind = "json" /\ IsList(words) /\ HasMissingTimestamp(words[2]))
        => (pc = "exit" /\ exitCode = 0)

\* C4: within a tool, no two different failure categories end the process with
\* the same exit code, none of them with 0, and a normal end exits with 0.
C4_DistinctExitCodes ==
    (/\ outcome[1] # StillRunning /\ outcome[2] # StillRunning
     /\ scenario[1].tool = scenario[2].tool)
        => /\ (scenario[1].category # scenario[2].category
                 => outcome[1].code # outcome[2].code)
           /\ (scenario[1].category = "normal end" <=> outcome[1].code = 0)

\* A word has a valid start time and a text that is not empty after trimming.
HasText(w) == w.text # Absent /\ \E i \in 1..Len(w.text[2]) : ~IsSpace(w.text[2][i])
Eligible(w) == IsNum(w.start) /\ HasText(w)

\* The text of an eligible word without its leading and trailing white space.
Trimmed(w) ==
    LET chars == w.text[2]
        inked == {i \in 1..Len(chars) : ~IsSpace(chars[i])}
        first == CHOOSE i \in inked : \A j \in inked : i <= j
        last == CHOOSE i \in inked : \A j \in inked : j <= i
    IN  SubSeq(chars, first, last)

\* C7: the LRC file holds, in input order, exactly one line "[mm:ss.ff]text" for
\* each word with a valid start time and a non-empty trimmed text, and no other
\* line; a word whose start is null (or missing) gets no line, was logged as a
\* warning by the timestamp loop, and the run ends with exit code 0.
C7_LrcExport ==
    /\ (lrcFile # NoLrc) =>
          LET chosen == SelectSeq(pwords, Eligible)
              lines == lrcFile[2]
          IN  /\ ppc = "exit" /\ pexit = 0
              /\ Len(lines) = Len(chosen)
              /\ \A i \in 1..Len(chosen) :
                    lines[i] = "[" \o format_seconds_to_lrc_ts(chosen[i].start[2]) \o "]"
                                 \o Join(Trimmed(chosen[i]))
              /\ \A i \in 1..Len(pwords) :
                    (pwords[i].start \in {Null, Absent})
                        => console[i].kind = "warning_missing"
    /\ (ppc = "crashed") => jsonFile.kind \in {"unreadable", "nondict"}

C7_Witness ==
    /\ lrcFile # NoLrc /\ Len(lrcFile[2]) = 1 /\ Len(pwords) = 2
    /\ lrcFile[2][1] = "[02:05.50]a"
    /\ pwords[1].start = Null
    /\ pexit = 0

\* C9: the minutes field is the whole number of minutes (start_ms div 60000),
\* zero-padded to two digits, never clamped or wrapped at 60: 125.5 s gives
\* "02:05.50", 0 s "00:00.00", 3661.004 s "61:01.00".
C9_Minutes ==
    (fmtOut # NotFormatted) =>
        LET m == fmtIn \div 60000
        IN  /\ fmtOut.minutes = (IF m < 10 THEN "0" \o ToString(m) ELSE ToString(m))
            /\ fmtOut.ts = fmtOut.minutes \o ":" \o fmtOut.seconds
            /\ (fmtIn = 125500) => fmtOut.ts = "02:05.50"
            /\ (fmtIn = 0) => fmtOut.ts = "00:00.00"
            /\ (fmtIn = 3661004) => fmtOut.ts = "61:01.00"
            /\ (fmtIn >= 3600000) => fmtOut.minutes \notin {Pad2(k) : k \in 0..59}

C9_Witness == fmtIn = 3661004 /\ fmtOut.ts = "61:01.00"

\* C10: for every non-negative start time the seconds field lies between 00.00
\* and 59.99; rounding never yields 60.00.
C10_SecondsBelow60 ==
    (fmtOut # NotFormatted) =>
        /\ fmtOut.seconds # "60.00"
        /\ fmtOut.seconds \in {Pad2(c \div 100) \o "." \o Pad2(c % 100) : c \in 0..5999}

=============================================================================
